---- MODULE Spec2Model ----
(***************************************************************************)
(* A model of the SiriusX session class of src/siriusx.py: the session's   *)
(* fields, the device and reader objects it drives, and one action per     *)
(* public method.  Strings that the code takes apart (unit strings, signal *)
(* names) are sequences of one-character strings.                          *)
(***************************************************************************)
EXTENDS Integers, Sequences, FiniteSets, TLC

VARIABLES
    device,             \* self.device: "None" or "dev" (the device handle)
    connected,          \* self.connected
    dev,                \* the state held by the physical device
    catalog,            \* device.signals_recursive, a sequence of signals
    sample_rate,        \* self.sample_rate
    channel_settings,   \* self.channel_settings
    selected_channels,  \* self.selected_channels
    selected_signals,   \* self.selected_signals
    multi_reader,       \* self.multi_reader
    ret,                \* outcome of the last call: what it returned or raised
    cfgLog,             \* steps taken by the last configure_channels call
    ioLog,              \* calls made on reader objects by the last call
    conv                \* input and outcome of the last converter application

vars == <<device, connected, dev, catalog, sample_rate, channel_settings,
          selected_channels, selected_signals, multi_reader, ret,
          cfgLog, ioLog, conv>>

-----------------------------------------------------------------------------
(* Bounds of the model *)

MaxMapLen == 2

-----------------------------------------------------------------------------
(* Python values and containers *)

\* an attribute that has not been assigned yet, and one that has
Unset == [set |-> FALSE]
Attr(v) == [set |-> TRUE, val |-> v]

\* seq[k] for a Python list of length n: negative k counts from the end
PyIndexOk(k, n) == k >= 0 - n /\ k < n
PyIndex(k, n) == IF k >= 0 THEN k + 1 ELSE n + k + 1

\* x in list
In(x, list) == \E i \in DOMAIN list : list[i] = x

\* the position of the first occurrence of x counted from one
indexFromOne(list, x) ==
    CHOOSE i \in DOMAIN list : list[i] = x /\ \A j \in 1..(i - 1) : list[j] # x

\* list.index(x), 0-based position of the first occurrence
index(list, x) == (CHOOSE i \in DOMAIN list :
                      list[i] = x /\ \A j \in 1..(i - 1) : list[j] # x) - 1

\* sub in s, for strings as character sequences
Contains(sub, s) ==
    \E i \in 0..(Len(s) - Len(sub)) :
        \A j \in DOMAIN sub : s[i + j] = sub[j]

\* list(d.keys()) of an ordered mapping held as a sequence of <<key, value>>
keys(m) == [i \in DOMAIN m |-> m[i][1]]

-----------------------------------------------------------------------------
(* The device: channels with an amplifier block, and a signal catalog *)

\* amplifier.visible_properties, in the device's order
visible_properties == <<"Measurement", "Range", "Offset">>

\* prop.selection_values: the legal values of an enumerated property, which
\* for Range depend on the current measurement mode; None for a property
\* that is not enumerated
selection_values(chan, property_name) ==
    CASE property_name = "Measurement" ->
            [none |-> FALSE, list |-> <<"IEPE", "Voltage">>]
      [] property_name = "Range" ->
            IF chan.Measurement = 0
            THEN [none |-> FALSE, list |-> <<"10000", "5000", "1000", "200">>]
            ELSE [none |-> FALSE, list |-> <<"10", "5", "1", "0.2">>]
      [] OTHER -> [none |-> TRUE, list |-> <<>>]

\* device.channels_recursive right after the device is added
DefaultChannels ==
    << [name |-> "AI 1", Measurement |-> 0, Range |-> 0, Offset |-> "0"],
       [name |-> "AI 2", Measurement |-> 0, Range |-> 0, Offset |-> "0"] >>

SigAI1 == <<"A", "I", " ", "1">>
SigAI2 == <<"A", "I", " ", "2">>
SigDI1 == <<"D", "I", " ", "1">>

\* the orders in which a device may list its signals
Catalogs == { <<SigAI1, SigAI2, SigDI1>>,
              <<SigDI1, SigAI2, SigAI1>>,
              <<SigAI2, SigDI1>> }

\* get_available_ai_signals: the signals whose name contains 'AI '
get_available_ai_signals(cat) ==
    SelectSeq(cat, LAMBDA signal : Contains(<<"A", "I", " ">>, signal))

-----------------------------------------------------------------------------
(* Channel configuration *)

\* the body of the loop of _configure_channel for one visible property that
\* the settings name, without the membership test: index raises on a value
\* that is not in the list
SetPropertyUnchecked(chan, property_name, new_setting) ==
    LET sv == selection_values(chan, property_name) IN
    IF sv.none
    THEN [chan |-> chan, avail |-> <<>>, outcome |-> "TypeError"]
    ELSE IF In(new_setting, sv.list)
         THEN [chan |-> [chan EXCEPT
                           ![property_name] = index(sv.list, new_setting)],
               avail |-> sv.list, outcome |-> "set"]
         ELSE [chan |-> chan, avail |-> sv.list, outcome |-> "ValueError"]

\* the body of the loop of _configure_channel for one visible property that
\* the settings name
SetProperty(chan, property_name, new_setting) ==
    LET sv == selection_values(chan, property_name) IN
    IF sv.none
    THEN \* list(None) raises
         [chan |-> chan, avail |-> <<>>, outcome |-> "TypeError"]
    ELSE
      LET available_values == sv.list IN
      IF In(new_setting, available_values)
      THEN [chan |-> [chan EXCEPT
                        ![property_name] = index(available_values, new_setting)],
            avail |-> available_values, outcome |-> "set"]
      ELSE \* the diagnostic is printed, the property is left alone
           [chan |-> chan, avail |-> available_values, outcome |-> "rejected"]

RECURSIVE SetProps(_, _, _, _, _)
\* the loop of _configure_channel over the visible properties `props` of the
\* amplifier of `chan`; pos and key identify the map entry being applied
SetProps(chan, props, settings, pos, key) ==
    IF props = <<>> THEN [chan |-> chan, log |-> <<>>, exc |-> "none"]
    ELSE
      LET property_name == Head(props) IN
      IF property_name \notin DOMAIN settings
      THEN SetProps(chan, Tail(props), settings, pos, key)
      ELSE
        LET r == SetProperty(chan, property_name, settings[property_name])
            entry == [kind |-> "property", pos |-> pos, key |-> key,
                      prop |-> property_name, req |-> settings[property_name],
                      avail |-> r.avail, before |-> chan[property_name],
                      after |-> r.chan[property_name], outcome |-> r.outcome]
        IN
        IF r.outcome \notin {"set", "rejected"}
        THEN [chan |-> r.chan, log |-> <<entry>>, exc |-> r.outcome]
        ELSE LET rest == SetProps(r.chan, Tail(props), settings, pos, key)
             IN [chan |-> rest.chan, log |-> <<entry>> \o rest.log,
                 exc |-> rest.exc]

\* _configure_channel on the device's channel list
ConfigureChannel(channels, channel_num, settings, pos) ==
    IF ~PyIndexOk(channel_num, Len(channels))
    THEN [channels |-> channels,
          log |-> << [kind |-> "channel", pos |-> pos, key |-> channel_num,
                      outcome |-> "IndexError"] >>,
          exc |-> "IndexError"]
    ELSE
      LET c == PyIndex(channel_num, Len(channels))
          selected_channel == channels[c]
          named == [selected_channel EXCEPT
                      !.name = IF "Name" \in DOMAIN settings
                               THEN settings["Name"] ELSE @]
          r == SetProps(named, visible_properties, settings, pos, channel_num)
      IN [channels |-> [channels EXCEPT ![c] = r.chan],
          log |-> << [kind |-> "channel", pos |-> pos, key |-> channel_num,
                      outcome |-> "ok"] >> \o r.log,
          exc |-> r.exc]

RECURSIVE ConfigureAll(_, _, _)
\* the loop of configure_channels over the entries of the map, from pos on
ConfigureAll(channels, m, pos) ==
    IF pos > Len(m) THEN [channels |-> channels, log |-> <<>>, exc |-> "none"]
    ELSE
      LET r == ConfigureChannel(channels, m[pos][1], m[pos][2], pos) IN
      IF r.exc # "none" THEN r
      ELSE LET rest == ConfigureAll(r.channels, m, pos + 1)
           IN [channels |-> rest.channels, log |-> r.log \o rest.log,
               exc |-> rest.exc]

\* the selected signals taken in the order of the catalog
SelectSignalsCatalogOrder(ai_signals, chans) ==
    LET sorted == SortSeq(chans, LAMBDA a, b : a < b)
    IN [i \in DOMAIN sorted |-> ai_signals[PyIndex(sorted[i], Len(ai_signals))]]

\* [ai_signals[i] for i in self.selected_channels]
SelectSignals(ai_signals, chans) ==
    [i \in DOMAIN chans |-> ai_signals[PyIndex(chans[i], Len(ai_signals))]]

configure_channels(m) ==
    /\ channel_settings' = Attr(m)
    /\ multi_reader' = multi_reader
    /\ ioLog' = <<>>
    /\ UNCHANGED <<device, connected, catalog, sample_rate, conv>>
    /\ IF device = "None"
       THEN \* self.device.channels_recursive or .signals_recursive on None
            /\ ret' = [op |-> "configure_channels", exc |-> "AttributeError"]
            /\ cfgLog' = <<>>
            /\ UNCHANGED <<dev, selected_channels, selected_signals>>
       ELSE
         LET r == ConfigureAll(dev.channels, m, 1)
             ai_signals == get_available_ai_signals(catalog)
             selOk == \A i \in DOMAIN m : PyIndexOk(m[i][1], Len(ai_signals))
         IN
         /\ dev' = [dev EXCEPT !.channels = r.channels]
         /\ IF r.exc # "none"
            THEN /\ ret' = [op |-> "configure_channels", exc |-> r.exc]
                 /\ cfgLog' = r.log
                 /\ UNCHANGED <<selected_channels, selected_signals>>
            ELSE /\ selected_channels' = Attr(keys(m))
                 /\ IF selOk
                    THEN /\ selected_signals' =
                                Attr(SelectSignals(ai_signals, keys(m)))
                         /\ ret' = [op |-> "configure_channels", exc |-> "none"]
                         /\ cfgLog' = r.log \o
                                << [kind |-> "select", outcome |-> "ok"] >>
                    ELSE /\ UNCHANGED selected_signals
                         /\ ret' = [op |-> "configure_channels",
                                    exc |-> "IndexError"]
                         /\ cfgLog' = r.log \o
                                << [kind |-> "select", outcome |-> "IndexError"] >>

-----------------------------------------------------------------------------
(* The converter: _apply_sensitivity *)

U_g == <<"g">>
U_ms2 == <<"m", "/", "s", "^", "2">>
U_V == <<"V">>

\* s.split('/')[-1]: what follows the last '/', the whole string without one
SplitLast(s) ==
    LET slashes == {i \in DOMAIN s : s[i] = "/"}
        from == IF slashes = {} THEN 1
                ELSE (CHOOSE i \in slashes : \A j \in slashes : j <= i) + 1
    IN SubSeq(s, from, Len(s))

\* s.strip('()'): leading and trailing '(' and ')' characters removed
Strip(s) ==
    LET kept == {i \in DOMAIN s : s[i] \notin {"(", ")"}} IN
    IF kept = {} THEN <<>>
    ELSE SubSeq(s, CHOOSE i \in kept : \A j \in kept : i <= j,
                   CHOOSE i \in kept : \A j \in kept : j <= i)

\* sens_unit.split('/')[-1].strip('()')
sens_unit_output(sens_unit) == Strip(SplitLast(sens_unit))

\* channel_settings[ch_num] of the ordered mapping m
Lookup(m, ch_num) == m[CHOOSE i \in DOMAIN m : m[i][1] = ch_num][2]

\* the converter with a hard failure for a pair of units it does not handle
ConvertStrict(sens, unit_output, sens_unit, signal) ==
    LET processed_signal == [raw |-> signal, sens |-> sens]
        tok == sens_unit_output(sens_unit)
    IN
    IF unit_output \in {U_g, U_ms2}
    THEN CASE unit_output = tok ->
                [exc |-> "none", diag |-> FALSE,
                 val |-> processed_signal @@ [scale |-> "none"]]
           [] unit_output = U_g /\ tok = U_ms2 ->
                [exc |-> "none", diag |-> FALSE,
                 val |-> processed_signal @@ [scale |-> "div_g"]]
           [] unit_output = U_ms2 /\ tok = U_g ->
                [exc |-> "none", diag |-> FALSE,
                 val |-> processed_signal @@ [scale |-> "mul_g"]]
           [] OTHER -> [exc |-> "ValueError", diag |-> FALSE]
    ELSE [exc |-> "none", diag |-> FALSE,
          val |-> processed_signal @@ [scale |-> "none"]]

\* lines 478-506 of _apply_sensitivity: the series signal / sens, then
\* divided or multiplied by g = 9.81 or left alone; diag tells whether the
\* 'Units were not handled' message is printed
Convert(sens, unit_output, sens_unit, signal) ==
    LET processed_signal == [raw |-> signal, sens |-> sens]
        tok == sens_unit_output(sens_unit)
    IN
    IF unit_output \in {U_g, U_ms2}
    THEN CASE unit_output = tok ->
                [exc |-> "none", diag |-> FALSE,
                 val |-> processed_signal @@ [scale |-> "none"]]
           [] unit_output = U_g /\ tok = U_ms2 ->
                [exc |-> "none", diag |-> FALSE,
                 val |-> processed_signal @@ [scale |-> "div_g"]]
           [] unit_output = U_ms2 /\ tok = U_g ->
                [exc |-> "none", diag |-> FALSE,
                 val |-> processed_signal @@ [scale |-> "mul_g"]]
           [] OTHER ->
                [exc |-> "none", diag |-> TRUE,
                 val |-> processed_signal @@ [scale |-> "none"]]
    ELSE \* 'V' and every other unit
         [exc |-> "none", diag |-> FALSE,
          val |-> processed_signal @@ [scale |-> "none"]]

\* _apply_sensitivity(ch_num, signal) on the stored map m
apply_sensitivity(m, ch_num, signal) ==
    LET st == Lookup(m, ch_num) IN
    IF {"Sensitivity", "Unit", "Sensitivity Unit"} \subseteq DOMAIN st
    THEN Convert(st["Sensitivity"], st["Unit"], st["Sensitivity Unit"], signal)
    ELSE [exc |-> "KeyError", diag |-> FALSE]

\* one application of the converter to a series of channel 0
ApplyConverter ==
    /\ conv.op = "input"
    /\ conv' = [op |-> "_apply_sensitivity",
                out |-> apply_sensitivity(channel_settings.val, 0, conv.signal)]
    /\ UNCHANGED <<device, connected, dev, catalog, sample_rate,
                   channel_settings, selected_channels, selected_signals,
                   multi_reader, ret, cfgLog, ioLog>>

-----------------------------------------------------------------------------
(* Arrays and the multi-channel reader *)

\* A two-dimensional numpy array is a record of its shape <<rows, columns>>
\* and its elements at <<row, column>>, both counted from 1.

\* a.T
Transpose(a) ==
    [shape |-> <<a.shape[2], a.shape[1]>>,
     at |-> [p \in (1..a.shape[2]) \X (1..a.shape[1]) |-> a.at[<<p[2], p[1]>>]]]

\* a[:, c] for a 0-based column number c
Column(a, c) == [t \in 1..a.shape[1] |-> a.at[<<t, c + 1>>]]

\* opendaq.MultiReader.read(count, timeout_ms) on the reader rd: with outcome
\* "ok" the batch of shape (channel, time) holding `count` samples of every
\* signal of the reader, with outcome "timeout" a failure
ReaderRead(rd, count, timeout_ms, outcome) ==
    IF outcome = "ok"
    THEN [exc |-> "none",
          val |-> [shape |-> <<Len(rd.signals), count>>,
                   at |-> [p \in (1..Len(rd.signals)) \X (1..count) |->
                              <<rd.signals[p[1]], p[2]>>]]]
    ELSE [exc |-> "ReadTimeout"]

\* what reader.read may do
Outcomes == {"ok", "timeout"}

ReadEntry(rd, count, timeout_ms, outcome) ==
    [op |-> "read", rid |-> rd.id, count |-> count, timeout_ms |-> timeout_ms,
     outcome |-> outcome]

\* the identity of a newly constructed reader object: it differs from the
\* reader the session still holds
NewId(mr) == IF mr.kind = "reader" /\ mr.id = 1 THEN 2 ELSE 1

\* the body of create_reader, on the attributes selected_signals and
\* multi_reader
CreateReader(sigs, mr) ==
    IF ~sigs.set THEN [exc |-> "AttributeError"]
    ELSE [exc |-> "none",
          reader |-> [kind |-> "reader", id |-> NewId(mr), signals |-> sigs.val,
                      timeout_type |-> "All", primed |-> FALSE]]

\* self.multi_reader = None, said of the attribute value mr; the model keeps
\* with the None which reader object was let go, 0 for none
Released(mr) ==
    CASE mr.kind = "reader" -> [kind |-> "None", released |-> mr.id]
      [] mr.kind = "None" -> mr
      [] OTHER -> [kind |-> "None", released |-> 0]

\* the body of start_reader on the attribute multi_reader
StartReader(mr, outcome) ==
    IF mr.kind # "reader" THEN [exc |-> "AttributeError", log |-> <<>>, mr |-> mr]
    ELSE LET r == ReaderRead(mr, 0, 10, outcome) IN
         [exc |-> r.exc, log |-> << ReadEntry(mr, 0, 10, outcome) >>,
          mr |-> IF r.exc = "none" THEN [mr EXCEPT !.primed = TRUE] ELSE mr]

\* read_raw that turns a failed read into an empty batch
ReadRawSwallow(mr, sample_count, timeout, outcome) ==
    IF mr.kind # "reader" THEN [exc |-> "AttributeError", log |-> <<>>]
    ELSE LET r == ReaderRead(mr, sample_count, 1000 * timeout, outcome) IN
         [exc |-> "none",
          log |-> << ReadEntry(mr, sample_count, 1000 * timeout, outcome) >>,
          val |-> IF r.exc = "none" THEN Transpose(r.val)
                  ELSE [shape |-> <<0, Len(mr.signals)>>,
                        at |-> [p \in {} |-> 0]]]

\* the body of read_raw on the attribute multi_reader
ReadRaw(mr, sample_count, timeout, outcome) ==
    IF mr.kind # "reader"
    THEN \* no attribute multi_reader, or None.read
         [exc |-> "AttributeError", log |-> <<>>]
    ELSE LET r == ReaderRead(mr, sample_count, 1000 * timeout, outcome)
             entry == ReadEntry(mr, sample_count, 1000 * timeout, outcome)
         IN IF r.exc # "none" THEN [exc |-> r.exc, log |-> <<entry>>]
            ELSE [exc |-> "none", log |-> <<entry>>, val |-> Transpose(r.val)]

\* acquire_raw without the call of start_reader
AcquireRawNoPrime(sigs, mr, sample_count, timeout, o1, o2) ==
    LET c == CreateReader(sigs, mr) IN
    IF c.exc # "none"
    THEN [exc |-> c.exc, log |-> <<>>, mr |-> mr]
    ELSE
      LET created == << [op |-> "create", rid |-> c.reader.id] >>
          r == ReadRaw(c.reader, sample_count, timeout, o2)
      IN
      IF r.exc # "none"
      THEN [exc |-> r.exc, log |-> created \o r.log, mr |-> c.reader]
      ELSE [exc |-> "none",
            log |-> created \o r.log
                      \o << [op |-> "stop", rid |-> c.reader.id] >>,
            mr |-> Released(c.reader), val |-> r.val]

\* the body of acquire_raw: create_reader, start_reader, read_raw,
\* stop_reader; o1 and o2 are the outcomes of the two reads
AcquireRaw(sigs, mr, sample_count, timeout, o1, o2) ==
    LET c == CreateReader(sigs, mr) IN
    IF c.exc # "none"
    THEN [exc |-> c.exc, log |-> <<>>, mr |-> mr]
    ELSE
      LET created == << [op |-> "create", rid |-> c.reader.id] >>
          p == StartReader(c.reader, o1)
      IN
      IF p.exc # "none"
      THEN [exc |-> p.exc, log |-> created \o p.log, mr |-> p.mr]
      ELSE
        LET r == ReadRaw(p.mr, sample_count, timeout, o2) IN
        IF r.exc # "none"
        THEN [exc |-> r.exc, log |-> created \o p.log \o r.log,
              mr |-> p.mr]
        ELSE [exc |-> "none",
              log |-> created \o p.log \o r.log
                        \o << [op |-> "stop", rid |-> p.mr.id] >>,
              mr |-> Released(p.mr), val |-> r.val]

RECURSIVE Process(_, _, _)
\* the loop 'for sig_num, ch_num in enumerate(self.channel_settings.keys())'
\* of read_processed and acquire_processed from entry pos on: the list of
\* the converted columns, and whether a diagnostic was printed
Process(m, raw_data, pos) ==
    IF pos > Len(m) THEN [exc |-> "none", rows |-> <<>>, diag |-> FALSE]
    ELSE
      IF pos > raw_data.shape[2]
      THEN \* raw_data[:, sig_num] past the last column
           [exc |-> "IndexError", rows |-> <<>>, diag |-> FALSE]
      ELSE
        LET signal == Column(raw_data, pos - 1)
            processed_ch == apply_sensitivity(m, m[pos][1], signal)
        IN
        IF processed_ch.exc # "none"
        THEN [exc |-> processed_ch.exc, rows |-> <<>>, diag |-> FALSE]
        ELSE LET rest == Process(m, raw_data, pos + 1) IN
             [exc |-> rest.exc,
              rows |-> <<processed_ch.val>> \o rest.rows,
              diag |-> processed_ch.diag \/ rest.diag]

\* np.array(processed_data).T for the list of converted columns, each of
\* count samples
ProcessedArray(rows, count) ==
    IF rows = <<>> THEN [shape |-> <<0>>, at |-> <<>>]
    ELSE [shape |-> <<count, Len(rows)>>,
          at |-> [p \in (1..count) \X (1..Len(rows)) |->
                     [raw |-> rows[p[2]].raw[p[1]], sens |-> rows[p[2]].sens,
                      scale |-> rows[p[2]].scale]]]

\* the labeled dictionary of acquire_processed (lines 452-465), filled entry
\* by entry from pos on into the dictionary d; a later entry with the name of
\* an earlier one replaces it
RECURSIVE FillDict(_, _, _, _)
FillDict(m, rows, pos, d) ==
    IF pos > Len(m) THEN [exc |-> "none", dict |-> d]
    ELSE
      LET st == m[pos][2] IN
      IF "Name" \notin DOMAIN st \/ "Unit" \notin DOMAIN st
      THEN [exc |-> "KeyError", dict |-> d]
      ELSE FillDict(m, rows, pos + 1,
                    (st["Name"] :> [signal |-> rows[pos], unit |-> st["Unit"]])
                        @@ d)

-----------------------------------------------------------------------------
(* Reader lifecycle and acquisition *)

\* what the acquisition methods leave alone
Configuration == <<device, connected, dev, catalog, channel_settings,
                   selected_channels, selected_signals, conv>>

create_reader ==
    /\ LET c == CreateReader(selected_signals, multi_reader) IN
       IF c.exc # "none"
       THEN /\ ret' = [op |-> "create_reader", exc |-> c.exc]
            /\ ioLog' = <<>>
            /\ UNCHANGED multi_reader
       ELSE /\ multi_reader' = c.reader
            /\ ret' = [op |-> "create_reader", exc |-> "none"]
            /\ ioLog' = << [op |-> "create", rid |-> c.reader.id] >>
    /\ cfgLog' = <<>>
    /\ UNCHANGED <<Configuration, sample_rate>>

start_reader ==
    \E outcome \in Outcomes :
        LET p == StartReader(multi_reader, outcome) IN
        /\ multi_reader' = p.mr
        /\ ret' = [op |-> "start_reader", exc |-> p.exc]
        /\ ioLog' = p.log
        /\ cfgLog' = <<>>
        /\ UNCHANGED <<Configuration, sample_rate>>

read_raw(sample_count, timeout) ==
    \E outcome \in Outcomes :
        LET r == ReadRaw(multi_reader, sample_count, timeout, outcome) IN
        /\ ret' = [op |-> "read_raw", sample_count |-> sample_count,
                   timeout |-> timeout] @@ [f \in {"exc", "val"} \cap DOMAIN r |-> r[f]]
        /\ ioLog' = r.log
        /\ cfgLog' = <<>>
        /\ UNCHANGED <<Configuration, sample_rate, multi_reader>>

read_processed(sample_count, timeout) ==
    \E outcome \in Outcomes :
        LET r == ReadRaw(multi_reader, sample_count, timeout, outcome)
            call == [op |-> "read_processed", sample_count |-> sample_count,
                     timeout |-> timeout]
        IN
        /\ IF r.exc # "none" THEN ret' = call @@ [exc |-> r.exc]
           ELSE IF ~channel_settings.set
                THEN ret' = call @@ [exc |-> "AttributeError"]
                ELSE LET pr == Process(channel_settings.val, r.val, 1) IN
                     IF pr.exc # "none" THEN ret' = call @@ [exc |-> pr.exc]
                     ELSE ret' = call @@
                            [exc |-> "none", diag |-> pr.diag,
                             val |-> ProcessedArray(pr.rows, sample_count)]
        /\ ioLog' = r.log
        /\ cfgLog' = <<>>
        /\ UNCHANGED <<Configuration, sample_rate, multi_reader>>

\* available_samples: the reader's available_count, whatever it is
available_samples ==
    /\ IF multi_reader.kind # "reader"
       THEN ret' = [op |-> "available_samples", exc |-> "AttributeError"]
       ELSE \E n \in {0, 1} :
               ret' = [op |-> "available_samples", exc |-> "none", val |-> n]
    /\ ioLog' = <<>>
    /\ cfgLog' = <<>>
    /\ UNCHANGED <<Configuration, sample_rate, multi_reader>>

\* a stop_reader that leaves the reader in place
stop_reader_keep ==
    /\ multi_reader' = multi_reader
    /\ ret' = [op |-> "stop_reader", exc |-> "none", was |-> multi_reader.kind]
    /\ ioLog' = <<>>
    /\ cfgLog' = <<>>
    /\ UNCHANGED <<Configuration, sample_rate>>

stop_reader ==
    /\ multi_reader' = Released(multi_reader)
    /\ ret' = [op |-> "stop_reader", exc |-> "none", was |-> multi_reader.kind]
    /\ ioLog' = << [op |-> "stop",
                    rid |-> IF multi_reader.kind = "reader"
                            THEN multi_reader.id ELSE 0] >>
    /\ cfgLog' = <<>>
    /\ UNCHANGED <<Configuration, sample_rate>>

acquire_raw(sample_count, timeout) ==
    /\ \E o1, o2 \in Outcomes :
         LET a == AcquireRaw(selected_signals, multi_reader,
                             sample_count, timeout, o1, o2)
         IN
         /\ multi_reader' = a.mr
         /\ ioLog' = a.log
         /\ ret' = [op |-> "acquire_raw", sample_count |-> sample_count,
                    timeout |-> timeout]
                      @@ [f \in {"exc", "val"} \cap DOMAIN a |-> a[f]]
    /\ cfgLog' = <<>>
    /\ UNCHANGED <<Configuration, sample_rate>>

acquire_processed(acqusition_time, return_dict) ==
    /\ cfgLog' = <<>>
    /\ UNCHANGED Configuration
    /\ IF device = "None"
       THEN \* get_sample_rate on no device
            /\ ret' = [op |-> "acquire_processed", exc |-> "AttributeError",
                       raw |-> "none", return_dict |-> return_dict]
            /\ ioLog' = <<>>
            /\ UNCHANGED <<sample_rate, multi_reader>>
       ELSE
         \E o1, o2 \in Outcomes :
           LET rate == dev.SampleRate
               sample_count == acqusition_time * rate
               call == [op |-> "acquire_processed",
                        return_dict |-> return_dict,
                        acqusition_time |-> acqusition_time,
                        sample_count |-> sample_count,
                        timeout |-> 2 * acqusition_time]
               a == AcquireRaw(selected_signals, multi_reader,
                               sample_count, 2 * acqusition_time, o1, o2)
           IN
           /\ sample_rate' = rate
           /\ multi_reader' = a.mr
           /\ ioLog' = a.log
           /\ IF a.exc # "none"
              THEN ret' = call @@ [exc |-> a.exc, raw |-> "raised"]
              ELSE
                LET pr == Process(channel_settings.val, a.val, 1) IN
                IF pr.exc # "none"
                THEN ret' = call @@ [exc |-> pr.exc, raw |-> "returned"]
                ELSE
                  IF return_dict
                  THEN
                    LET fd == FillDict(channel_settings.val, pr.rows, 1, <<>>)
                        time_sig == [linspace |->
                                       <<0, acqusition_time, sample_count>>]
                    IN
                    IF fd.exc # "none"
                    THEN ret' = call @@ [exc |-> fd.exc, raw |-> "returned"]
                    ELSE ret' = call @@
                           [exc |-> "none", raw |-> "returned",
                            diag |-> pr.diag, rows |-> pr.rows,
                            val |-> ("time" :> [signal |-> time_sig,
                                                unit |-> <<"s">>]) @@ fd.dict]
                  ELSE ret' = call @@
                         [exc |-> "none", raw |-> "returned",
                          diag |-> pr.diag, rows |-> pr.rows,
                          val |-> ProcessedArray(pr.rows, sample_count)]

-----------------------------------------------------------------------------
(* Connection *)

\* a connect whose except branch leaves the flag as it was
connect_keep_flag(ok) ==
    /\ IF ok THEN device' = "dev" /\ connected' = TRUE
             ELSE device' = device /\ connected' = connected
    /\ ret' = [op |-> "connect", exc |-> "none", val |-> ok, accepted |-> ok]
    /\ cfgLog' = <<>>
    /\ ioLog' = <<>>
    /\ UNCHANGED <<dev, catalog, sample_rate, channel_settings,
                   selected_channels, selected_signals, multi_reader, conv>>

\* connect: ok tells whether instance.add_device accepts the connection
\* string; when it raises, the assignment to self.device does not happen.
\* The field accepted of ret records what the transport did.
connect(ok) ==
    /\ IF ok THEN device' = "dev" /\ connected' = TRUE
             ELSE device' = device /\ connected' = FALSE
    /\ ret' = [op |-> "connect", exc |-> "none", val |-> ok, accepted |-> ok]
    /\ cfgLog' = <<>>
    /\ ioLog' = <<>>
    /\ UNCHANGED <<dev, catalog, sample_rate, channel_settings,
                   selected_channels, selected_signals, multi_reader, conv>>

-----------------------------------------------------------------------------
(* Sample rate *)

\* the rates the device supports
SupportedRates == {1, 2, 4}

\* the distance between two rates
Dist(a, b) == IF a >= b THEN a - b ELSE b - a

\* the device's quantisation of a requested rate: the nearest supported
\* rate, the lower one of two equally near
Quantise(sample_rate_req) ==
    CHOOSE q \in SupportedRates :
        \A o \in SupportedRates :
            \/ Dist(q, sample_rate_req) < Dist(o, sample_rate_req)
            \/ Dist(q, sample_rate_req) = Dist(o, sample_rate_req) /\ q <= o

\* device.set_property_value("SampleRate", v) on the device state d
SetPropertyValue(d, v) == [d EXCEPT !.SampleRate = Quantise(v)]

\* device.get_property_value("SampleRate")
GetPropertyValue(d) == d.SampleRate

\* a set_sample_rate that returns the rate it was asked for
SetSampleRateEcho(d, sample_rate_req) ==
    [dev |-> SetPropertyValue(d, sample_rate_req),
     cached |-> sample_rate_req,
     val |-> sample_rate_req]

\* the body of set_sample_rate on a device: set the property, then
\* get_sample_rate, which caches and returns what the device holds
SetSampleRate(d, sample_rate_req) ==
    LET d2 == SetPropertyValue(d, sample_rate_req) IN
    [dev |-> d2, cached |-> GetPropertyValue(d2), val |-> GetPropertyValue(d2)]

get_sample_rate ==
    /\ IF device = "None"
       THEN /\ ret' = [op |-> "get_sample_rate", exc |-> "AttributeError",
                       flag |-> connected]
            /\ UNCHANGED sample_rate
       ELSE /\ sample_rate' = GetPropertyValue(dev)
            /\ ret' = [op |-> "get_sample_rate", exc |-> "none",
                       val |-> GetPropertyValue(dev), flag |-> connected]
    /\ cfgLog' = <<>>
    /\ ioLog' = <<>>
    /\ UNCHANGED <<device, connected, dev, catalog, channel_settings,
                   selected_channels, selected_signals, multi_reader, conv>>

set_sample_rate(sample_rate_req) ==
    /\ IF device = "None"
       THEN /\ ret' = [op |-> "set_sample_rate", exc |-> "AttributeError",
                       req |-> sample_rate_req, flag |-> connected]
            /\ UNCHANGED <<sample_rate, dev>>
       ELSE LET r == SetSampleRate(dev, sample_rate_req) IN
            /\ dev' = r.dev
            /\ sample_rate' = r.cached
            /\ ret' = [op |-> "set_sample_rate", exc |-> "none",
                       req |-> sample_rate_req, val |-> r.val,
                       flag |-> connected]
    /\ cfgLog' = <<>>
    /\ ioLog' = <<>>
    /\ UNCHANGED <<device, connected, catalog, channel_settings,
                   selected_channels, selected_signals, multi_reader, conv>>

-----------------------------------------------------------------------------
(* Inputs of the configuration specification *)

\* settings records: a valid change of mode and range; a mode the device does
\* not offer; a key that names the property without legal values
CfgSettings ==
    << ("Name" :> "acc_X") @@ ("Measurement" :> "Voltage") @@ ("Range" :> "5"),
       ("Measurement" :> "Current") @@ ("Range" :> "10000"),
       ("Range" :> "5000") @@ ("Offset" :> "0.5") >>

\* channel numbers a caller may pass: the two channels, one past the end,
\* and one before the start
Keys == {0 - 1, 0, 1, 2}

\* sequences of at most n distinct channel numbers
KeySeqs(ks, n) ==
    { q \in UNION { [1..k -> ks] : k \in 0..n } :
        \A i, j \in DOMAIN q : i # j => q[i] # q[j] }

\* the ordered mappings with the keys q whose entries take the records of
\* ss in turn, starting after the first `off` of them
MapOf(q, ss, off) ==
    [i \in DOMAIN q |-> << q[i], ss[((off + i - 1) % Len(ss)) + 1] >>]

MapsOver(ks, ss, n) ==
    { MapOf(q, ss, off) : q \in KeySeqs(ks, n), off \in 0..(Len(ss) - 1) }

CfgMaps == MapsOver(Keys, CfgSettings, MaxMapLen)

-----------------------------------------------------------------------------

Init ==
    /\ device = "None"
    /\ connected = FALSE
    /\ dev = [channels |-> DefaultChannels, SampleRate |-> 1]
    /\ catalog \in Catalogs
    /\ sample_rate = "None"
    /\ channel_settings = Unset
    /\ selected_channels = Unset
    /\ selected_signals = Unset
    /\ multi_reader = [kind |-> "unset"]
    /\ ret = [op |-> "init", exc |-> "none"]
    /\ cfgLog = <<>>
    /\ ioLog = <<>>
    /\ conv = [op |-> "none"]

\* the session after construction and one successful connect
InitConnected ==
    /\ device = "dev"
    /\ connected = TRUE
    /\ dev = [channels |-> DefaultChannels, SampleRate |-> 1]
    /\ catalog \in Catalogs
    /\ sample_rate = "None"
    /\ channel_settings = Unset
    /\ selected_channels = Unset
    /\ selected_signals = Unset
    /\ multi_reader = [kind |-> "unset"]
    /\ ret = [op |-> "connect", exc |-> "none", val |-> TRUE, accepted |-> TRUE]
    /\ cfgLog = <<>>
    /\ ioLog = <<>>
    /\ conv = [op |-> "none"]

\* configuration of a connected session
NextCfg == \E m \in CfgMaps : configure_channels(m)

SpecCfg == InitConnected /\ [][NextCfg]_vars

-----------------------------------------------------------------------------
(* Properties of the channel configuration, checked under SpecCfg *)

\* the analog-input signals of the catalog, in catalog order
AICatalog == SelectSeq(catalog, LAMBDA signal : signal \in {SigAI1, SigAI2})

\* the steps configure_channels has to take for the map m from entry pos on:
\* per entry the channel lookup and one step for each visible property the
\* settings name, and the signal selection at the end
PropSteps(settings, pos) ==
    SelectSeq([i \in DOMAIN visible_properties |->
                 <<"property", pos, visible_properties[i]>>],
              LAMBDA st : st[3] \in DOMAIN settings)

RECURSIVE Work(_, _)
Work(m, pos) ==
    IF pos > Len(m) THEN << <<"select", 0, "">> >>
    ELSE << <<"channel", pos, "">> >> \o PropSteps(m[pos][2], pos)
            \o Work(m, pos + 1)

StepOf(e) ==
    CASE e.kind = "property" -> <<"property", e.pos, e.prop>>
      [] e.kind = "channel" -> <<"channel", e.pos, "">>
      [] OTHER -> <<"select", 0, "">>

\* the last call was a configure_channels on a connected session
Configured == ret.op = "configure_channels" /\ ret.exc # "AttributeError"

\* log entry j is the rejection of a value that is not a legal value
Rejected(j) == cfgLog[j].kind = "property" /\ cfgLog[j].outcome = "rejected"

\* log entry j is the assignment of a legal value
Assigned(j) == cfgLog[j].kind = "property" /\ cfgLog[j].outcome = "set"

\* the channel a log entry acted on
ChanOf(e) == dev.channels[PyIndex(e.key, Len(dev.channels))]

\* no entry after j assigns to a property of the channel of entry j
LastOnChannel(j) ==
    \A k \in (j + 1)..Len(cfgLog) :
        Assigned(k) =>
            PyIndex(cfgLog[k].key, Len(dev.channels))
                # PyIndex(cfgLog[j].key, Len(dev.channels))

\* C1: a requested value that is not in the legal-value list of a visible
\* enumerated property leaves the property at the value it had, raises
\* nothing, and the call goes on with the step that follows it: the next
\* property of the channel, the next channel of the map, or the selection of
\* the signals.  The steps taken are always the steps the map asks for, in
\* order, and all of them when the call raises nothing.
C1_InvalidValueKeepsProperty ==
    Configured =>
        LET work == Work(channel_settings.val, 1) IN
        /\ Len(cfgLog) <= Len(work)
        /\ \A j \in DOMAIN cfgLog : StepOf(cfgLog[j]) = work[j]
        /\ ret.exc = "none" => Len(cfgLog) = Len(work)
        /\ \A j \in DOMAIN cfgLog :
              (/\ cfgLog[j].kind = "property"
               /\ ~selection_values(ChanOf(cfgLog[j]), cfgLog[j].prop).none
               /\ ~In(cfgLog[j].req, cfgLog[j].avail)) => Rejected(j)
        /\ \A j \in DOMAIN cfgLog :
              Rejected(j) =>
                /\ ~In(cfgLog[j].req, cfgLog[j].avail)
                /\ cfgLog[j].after = cfgLog[j].before
                /\ j < Len(cfgLog)
                /\ LastOnChannel(j) =>
                      ChanOf(cfgLog[j])[cfgLog[j].prop] = cfgLog[j].before

\* C1 witness: a rejected value on a property that was not at its default,
\* followed by the configuration of a further channel
C1_Witness ==
    /\ Configured
    /\ \E j \in DOMAIN cfgLog :
          /\ Rejected(j)
          /\ cfgLog[j].before # 0
          /\ \E k \in (j + 1)..Len(cfgLog) :
                cfgLog[k].kind = "property" /\ cfgLog[k].pos > cfgLog[j].pos

\* C2: every assignment of a legal value stores the 0-based position of the
\* requested value in the legal-value list read at that moment, so that the
\* device then shows the requested value, also when the list was changed by
\* an earlier assignment of the same call.
C2_IndexOfRequestedValue ==
    Configured =>
        \A j \in DOMAIN cfgLog :
            Assigned(j) =>
                LET e == cfgLog[j] IN
                /\ e.after + 1 \in DOMAIN e.avail
                /\ e.avail[e.after + 1] = e.req
                /\ \A i \in 1..e.after : e.avail[i] # e.req
                /\ LastOnChannel(j) =>
                      LET c == ChanOf(e)
                          now == selection_values(c, e.prop).list
                      IN c[e.prop] + 1 \in DOMAIN now /\ now[c[e.prop] + 1] = e.req

\* C2 witness: the measurement mode is changed and then a range is set that
\* only the list of the new mode holds, at a position other than the first
C2_Witness ==
    /\ Configured
    /\ \E j \in DOMAIN cfgLog :
          /\ Assigned(j)
          /\ cfgLog[j].prop = "Measurement"
          /\ cfgLog[j].before # cfgLog[j].after
          /\ j < Len(cfgLog)
          /\ Assigned(j + 1)
          /\ cfgLog[j + 1].prop = "Range"
          /\ cfgLog[j + 1].after > 0

\* C3: after a configure_channels that completes, the active signal list has
\* one entry per key of the map, and the entry of a key that is an index of
\* the analog-input catalog is the signal at that index, in the order of the
\* keys.
C3_SignalsFollowKeyOrder ==
    (Configured /\ ret.exc = "none") =>
        LET ks == keys(channel_settings.val) IN
        /\ selected_signals.set
        /\ Len(selected_signals.val) = Len(ks)
        /\ selected_channels.val = ks
        /\ \A i \in DOMAIN ks :
              ks[i] \in 0..(Len(AICatalog) - 1) =>
                  selected_signals.val[i] = AICatalog[ks[i] + 1]

\* C3 witness: two keys in descending order on a catalog that lists the
\* second analog input before the first
C3_Witness ==
    /\ Configured
    /\ ret.exc = "none"
    /\ keys(channel_settings.val) = <<1, 0>>
    /\ AICatalog = <<SigAI2, SigAI1>>
    /\ selected_signals.val = <<SigAI1, SigAI2>>

\* C4: a configure_channels whose map has a key outside 0..len-1 of the
\* analog-input signal list ends in an indexing failure.
C4_BadKeyRaises ==
    (Configured /\ \E i \in DOMAIN channel_settings.val :
                      channel_settings.val[i][1] \notin 0..(Len(AICatalog) - 1))
        => ret.exc = "IndexError"

-----------------------------------------------------------------------------
(* The converter on its own, checked under SpecConv *)

\* sensitivity-unit strings: the two of the documentation, the acceleration
\* unit without parentheses, units that are no acceleration, a string
\* without separator, and units with parentheses or a second separator
SensUnits ==
    { <<"m", "V", "/", "g">>,
      <<"m", "V", "/", "(", "m", "/", "s", "^", "2", ")">>,
      <<"m", "V", "/", "m", "/", "s", "^", "2">>,
      <<"V", "/", "V">>,
      <<"m", "V", "/", "N">>,
      <<"g">>,
      <<"m", "V", "/", "(", "g", ")">>,
      <<"m", "V", "/", "m", "/", "g">> }

OutUnits == { U_g, U_ms2, U_V, <<"N">> }

Sensitivities == {1, 100}

\* a session that stores a one-channel map, and a series to convert
InitConv ==
    /\ device = "None"
    /\ connected = FALSE
    /\ dev = [channels |-> DefaultChannels, SampleRate |-> 1]
    /\ catalog = <<SigAI1, SigAI2, SigDI1>>
    /\ sample_rate = "None"
    /\ \E su \in SensUnits, u \in OutUnits, sv \in Sensitivities :
          channel_settings =
              Attr(<< <<0, ("Name" :> "acc_X") @@ ("Sensitivity" :> sv)
                            @@ ("Sensitivity Unit" :> su) @@ ("Unit" :> u)>> >>)
    /\ selected_channels = Unset
    /\ selected_signals = Unset
    /\ multi_reader = [kind |-> "unset"]
    /\ ret = [op |-> "init", exc |-> "none"]
    /\ cfgLog = <<>>
    /\ ioLog = <<>>
    /\ conv = [op |-> "input", signal |-> "raw"]

NextConv == ApplyConverter

SpecConv == InitConv /\ [][NextConv]_vars

Converted == conv.op = "_apply_sensitivity"
ConvSettings == channel_settings.val[1][2]

\* C7: after the division by the sensitivity, a series with sensitivity unit
\* "mV/(m/s^2)" and output unit "g" is divided by g, and a series with
\* sensitivity unit "mV/g" and output unit "m/s^2" is multiplied by g.
C7_UnitBridging ==
    Converted =>
        /\ (/\ ConvSettings["Sensitivity Unit"]
                  = <<"m", "V", "/", "(", "m", "/", "s", "^", "2", ")">>
            /\ ConvSettings["Unit"] = U_g)
              => (conv.out.exc = "none" /\ conv.out.val.scale = "div_g")
        /\ (/\ ConvSettings["Sensitivity Unit"] = <<"m", "V", "/", "g">>
            /\ ConvSettings["Unit"] = U_ms2)
              => (conv.out.exc = "none" /\ conv.out.val.scale = "mul_g")

\* C8: the converter never raises and always returns the series divided by
\* the sensitivity; for an acceleration output unit that neither equals the
\* unit it extracts from the sensitivity unit nor forms a g and m/s^2 pair
\* with it, it prints the diagnostic and applies no further scaling; for
\* "V" and any other output unit it applies no further scaling and prints
\* nothing; it never prints the diagnostic together with a scaling by g.
C8_ConverterTotal ==
    Converted =>
        LET out == ConvSettings["Unit"]
            tok == sens_unit_output(ConvSettings["Sensitivity Unit"])
            accel == out \in {U_g, U_ms2}
            pair == \/ out = tok
                    \/ (out = U_g /\ tok = U_ms2)
                    \/ (out = U_ms2 /\ tok = U_g)
        IN
        /\ conv.out.exc = "none"
        /\ conv.out.val.raw = "raw"
        /\ conv.out.val.sens = ConvSettings["Sensitivity"]
        /\ (accel /\ ~pair) => (conv.out.diag /\ conv.out.val.scale = "none")
        /\ ~accel => (~conv.out.diag /\ conv.out.val.scale = "none")
        /\ conv.out.diag => conv.out.val.scale = "none"

\* C8 witness: an acceleration output unit with a sensitivity unit that is
\* no acceleration, converted with the diagnostic and without scaling
C8_Witness ==
    /\ Converted
    /\ ConvSettings["Unit"] = U_g
    /\ ConvSettings["Sensitivity Unit"] = <<"m", "V", "/", "N">>
    /\ conv.out.exc = "none"
    /\ conv.out.diag
    /\ conv.out.val.scale = "none"

-----------------------------------------------------------------------------
(* Acquisition on a connected session, checked under SpecAcq *)

\* settings records of the acquisition: the accelerometer channel of the
\* documentation, and a voltage channel that keeps its name
AcqSettings ==
    << ("Name" :> "acc_X") @@ ("Sensitivity" :> 100)
          @@ ("Sensitivity Unit" :> <<"m", "V", "/", "g">>) @@ ("Unit" :> U_g),
       ("Sensitivity" :> 1)
          @@ ("Sensitivity Unit" :> <<"V", "/", "V">>) @@ ("Unit" :> U_V) >>

AcqMaps == MapsOver({0, 1}, AcqSettings, MaxMapLen)

\* sample counts, timeouts in seconds and acquisition times in seconds
SampleCounts == {1, 2}
Timeouts == {1, 2}

NextAcq ==
    \/ \E m \in AcqMaps : configure_channels(m)
    \/ create_reader
    \/ start_reader
    \/ \E n \in SampleCounts, t \in Timeouts : read_raw(n, t)
    \/ \E n \in SampleCounts, t \in Timeouts : read_processed(n, t)
    \/ available_samples
    \/ stop_reader
    \/ \E n \in SampleCounts, t \in Timeouts : acquire_raw(n, t)
    \/ \E t \in Timeouts, f \in BOOLEAN : acquire_processed(t, f)

SpecAcq == InitConnected /\ [][NextAcq]_vars

\* the last call went through acquire_raw
Acquired == ret.op \in {"acquire_raw", "acquire_processed"}

\* acquire_raw handed a batch back to its caller
RawReturned ==
    \/ ret.op = "acquire_raw" /\ ret.exc = "none"
    \/ ret.op = "acquire_processed" /\ ret.raw = "returned"

\* C5: the calls acquire_raw makes on readers are, in this order, the
\* construction of one reader, a zero-count read of 10 ms on it, the read of
\* sample_count samples with the timeout in milliseconds on it, and its
\* release; a failing step ends the sequence, and a batch is returned exactly
\* when all four were made.  The sample read is thus always directly preceded
\* by a successful priming read on the same reader.
C5_AcquireOrder ==
    Acquired =>
        LET n == Len(ioLog) IN
        /\ n \in {0, 2, 3, 4}
        /\ n >= 2 =>
              /\ ioLog[1].op = "create"
              /\ \A j \in DOMAIN ioLog : ioLog[j].rid = ioLog[1].rid
              /\ ioLog[2].op = "read"
              /\ ioLog[2].count = 0
              /\ ioLog[2].timeout_ms = 10
        /\ n = 2 => ioLog[2].outcome = "timeout"
        /\ n >= 3 =>
              /\ ioLog[2].outcome = "ok"
              /\ ioLog[3].op = "read"
              /\ ioLog[3].count = ret.sample_count
              /\ ioLog[3].timeout_ms = 1000 * ret.timeout
        /\ n = 3 => ioLog[3].outcome = "timeout"
        /\ n = 4 => (ioLog[3].outcome = "ok" /\ ioLog[4].op = "stop")
        /\ RawReturned <=> n = 4

\* C5 witness: acquire_processed got a batch of two channels from acquire_raw
C5_Witness ==
    /\ ret.op = "acquire_processed"
    /\ ret.raw = "returned"
    /\ ret.exc = "none"
    /\ Len(ioLog) = 4
    /\ Len(selected_signals.val) = 2

\* C6: stop_reader never fails and leaves the session without reader; on a
\* session that is already stopped it changes nothing; and as long as the
\* session is stopped every read (start_reader, read_raw, read_processed)
\* fails and returns no batch, the stopped state ending only with the
\* construction of a new reader.
C6_StopThenReadFails ==
    [][ /\ ret'.op = "stop_reader" =>
              (ret'.exc = "none" /\ multi_reader'.kind = "None")
        /\ (multi_reader.kind = "None" /\ ret'.op = "stop_reader") =>
              <<Configuration, sample_rate, multi_reader>>'
                  = <<Configuration, sample_rate, multi_reader>>
        /\ (/\ multi_reader.kind = "None"
            /\ ret'.op \in {"start_reader", "read_raw", "read_processed"}) =>
              /\ ret'.exc = "AttributeError"
              /\ "val" \notin DOMAIN ret'
              /\ multi_reader' = multi_reader
        /\ (multi_reader.kind = "None" /\ multi_reader'.kind # "None") =>
              /\ ret'.op \in {"create_reader", "acquire_raw", "acquire_processed"}
              /\ ioLog'[1].op = "create"
      ]_vars

\* C6 witness: a read_raw that failed on a session whose reader was stopped
C6_Witness ==
    /\ ret.op = "read_raw"
    /\ ret.exc = "AttributeError"
    /\ multi_reader.kind = "None"
    /\ multi_reader.released > 0

\* C10: read_raw on a reader makes one read call on it, for sample_count
\* samples and 1000 * timeout milliseconds; when that call fails with the
\* timeout the failure is propagated and no batch is returned, otherwise the
\* batch has sample_count rows and one column per signal of the reader, the
\* transpose of what the reader delivered.  The same holds for the sample
\* read of acquire_raw.
C10_ReadAllOrFail ==
    /\ (ret.op = "read_raw" /\ multi_reader.kind = "reader") =>
          /\ Len(ioLog) = 1
          /\ ioLog[1] = [op |-> "read", rid |-> multi_reader.id,
                          count |-> ret.sample_count,
                          timeout_ms |-> 1000 * ret.timeout,
                          outcome |-> ioLog[1].outcome]
          /\ ioLog[1].outcome = "timeout" =>
                (ret.exc = "ReadTimeout" /\ "val" \notin DOMAIN ret)
          /\ ioLog[1].outcome = "ok" =>
                /\ ret.exc = "none"
                /\ ret.val.shape = <<ret.sample_count, Len(multi_reader.signals)>>
                /\ \A t \in 1..ret.sample_count :
                      \A c \in DOMAIN multi_reader.signals :
                          ret.val.at[<<t, c>>] = <<multi_reader.signals[c], t>>
    /\ (ret.op = "acquire_raw" /\ Len(ioLog) >= 3) =>
          /\ Cardinality({j \in DOMAIN ioLog :
                             ioLog[j].op = "read" /\ ioLog[j].count > 0}) = 1
          /\ ioLog[3].outcome = "timeout" =>
                (ret.exc = "ReadTimeout" /\ "val" \notin DOMAIN ret)
          /\ ioLog[3].outcome = "ok" =>
                /\ ret.exc = "none"
                /\ ret.val.shape = <<ret.sample_count, Len(selected_signals.val)>>
                /\ \A t \in 1..ret.sample_count :
                      \A c \in DOMAIN selected_signals.val :
                          ret.val.at[<<t, c>>] = <<selected_signals.val[c], t>>

\* C10 witness: a read_raw on a reader of two signals that ran into the
\* timeout
C10_Witness ==
    /\ ret.op = "read_raw"
    /\ multi_reader.kind = "reader"
    /\ Len(multi_reader.signals) = 2
    /\ Len(ioLog) = 1
    /\ ioLog[1].outcome = "timeout"
    /\ ret.exc = "ReadTimeout"

-----------------------------------------------------------------------------
(* The labeled output of acquire_processed, checked under SpecDict *)

\* settings records with the names of the output: two channels of the same
\* name, a channel named like the time entry, and a channel without a name
DictSettings ==
    << ("Name" :> "acc_X") @@ ("Sensitivity" :> 100)
          @@ ("Sensitivity Unit" :> <<"m", "V", "/", "g">>) @@ ("Unit" :> U_g),
       ("Name" :> "acc_X") @@ ("Sensitivity" :> 10)
          @@ ("Sensitivity Unit" :> <<"m", "V", "/", "g">>) @@ ("Unit" :> U_ms2),
       ("Name" :> "time") @@ ("Sensitivity" :> 1)
          @@ ("Sensitivity Unit" :> <<"V", "/", "V">>) @@ ("Unit" :> U_V),
       ("Sensitivity" :> 100)
          @@ ("Sensitivity Unit" :> <<"m", "V", "/", "g">>) @@ ("Unit" :> U_g) >>

DictMaps == MapsOver({0, 1}, DictSettings, MaxMapLen)

NextDict ==
    \/ \E m \in DictMaps : configure_channels(m)
    \/ \E t \in Timeouts, f \in BOOLEAN : acquire_processed(t, f)

SpecDict == InitConnected /\ [][NextDict]_vars

\* the stored map and the active signals are those of one configuration
Matched ==
    /\ channel_settings.set
    /\ selected_signals.set
    /\ Len(selected_signals.val) = Len(channel_settings.val)
    /\ \A i \in DOMAIN channel_settings.val :
          LET k == channel_settings.val[i][1] IN
          /\ k + 1 \in DOMAIN AICatalog
          /\ selected_signals.val[i] = AICatalog[k + 1]

\* every entry of the stored map configures a name for its channel
AllNamed ==
    \A i \in DOMAIN channel_settings.val :
        "Name" \in DOMAIN channel_settings.val[i][2]

\* the configured name of the channel of entry i of the stored map
NameOf(i) == channel_settings.val[i][2]["Name"]

\* C9: when acquire_raw has delivered the batch of a session with n
\* configured and named channels, acquire_processed with the flag set
\* returns n + 1 entries: for every configured channel one under its name
\* with its converted series and its unit, and the time entry with unit "s"
\* and sample_count points; with the flag clear it returns the array.
C9_LabeledOutput ==
    (/\ ret.op = "acquire_processed"
     /\ ret.raw = "returned"
     /\ Matched
     /\ AllNamed) =>
        LET m == channel_settings.val IN
        /\ ret.exc = "none"
        /\ \A i \in DOMAIN m :
              /\ ret.rows[i].sens = m[i][2]["Sensitivity"]
              /\ ret.rows[i].raw =
                    [t \in 1..ret.sample_count |-> <<selected_signals.val[i], t>>]
        /\ IF ret.return_dict
           THEN /\ DOMAIN ret.val = {NameOf(i) : i \in DOMAIN m} \cup {"time"}
                /\ Cardinality(DOMAIN ret.val) = Len(m) + 1
                /\ \A i \in DOMAIN m :
                      ret.val[NameOf(i)] = [signal |-> ret.rows[i],
                                            unit |-> m[i][2]["Unit"]]
                /\ ret.val["time"] =
                      [signal |-> [linspace |-> <<0, ret.acqusition_time,
                                                  ret.sample_count>>],
                       unit |-> <<"s">>]
           ELSE ret.val = ProcessedArray(ret.rows, ret.sample_count)

-----------------------------------------------------------------------------
(* Release of the reader, checked under SpecAcq *)

\* C13: when acquire_raw or acquire_processed has terminated, by returning
\* or by propagating a failure, every reader it created has been released
\* by a stop and the session holds no live reader.  (Said of sessions with
\* at least one active signal.)
C13_ReleasedOnEveryExit ==
    (/\ Acquired
     /\ \E i \in DOMAIN ioLog : ioLog[i].op = "create"
     /\ selected_signals.val # <<>>) =>
        /\ \A i \in DOMAIN ioLog :
              ioLog[i].op = "create" =>
                  \E j \in DOMAIN ioLog :
                      /\ j > i
                      /\ ioLog[j].op = "stop"
                      /\ ioLog[j].rid = ioLog[i].rid
        /\ multi_reader.kind # "reader"

-----------------------------------------------------------------------------
(* The stored configuration across calls, checked under SpecCfg *)

\* C14: whenever a configuration map is stored, the stored active signal
\* list is that of the same call: it has the length of the map and its i-th
\* signal is the analog-input signal that the i-th key indexes, also after a
\* call that propagated an indexing failure part-way.  (Calls that fail on
\* a property without legal values are left out of the statement.)
C14_MapAndSignalsSameCall ==
    (channel_settings.set /\ ret.exc \in {"none", "IndexError"}) =>
        /\ selected_signals.set
        /\ Len(selected_signals.val) = Len(channel_settings.val)
        /\ \A i \in DOMAIN channel_settings.val :
              LET k == channel_settings.val[i][1]
                  n == Len(AICatalog)
              IN /\ PyIndexOk(k, n)
                 /\ selected_signals.val[i] = AICatalog[PyIndex(k, n)]

\* C17: a configure_channels whose keys are all valid channel indices
\* completes without raising for every settings record, a record that names
\* a visible property without legal-value list included: that property is
\* not validated and the remaining properties and channels are configured.
C17_NonEnumeratedAccepted ==
    (/\ Configured
     /\ \A i \in DOMAIN channel_settings.val :
           /\ channel_settings.val[i][1] \in 0..(Len(dev.channels) - 1)
           /\ channel_settings.val[i][1] \in 0..(Len(AICatalog) - 1))
        => /\ ret.exc = "none"
           /\ Len(cfgLog) = Len(Work(channel_settings.val, 1))

-----------------------------------------------------------------------------
(* The reader lifecycle, checked under SpecAcq *)

\* C15: read_raw or read_processed obtains a batch from the reader only when
\* the session holds a reader that was created and then primed by
\* start_reader since the last stop; on a reader that was created but not
\* primed the read returns no data.  (Said of readers over at least one
\* signal, whose batches hold samples.)
C15_ReadOnlyWhenPrimed ==
    (/\ ret.op \in {"read_raw", "read_processed"}
     /\ \E i \in DOMAIN ioLog : ioLog[i].op = "read" /\ ioLog[i].outcome = "ok"
     /\ multi_reader.signals # <<>>)
        => multi_reader.primed

-----------------------------------------------------------------------------
(* The unit token of the converter, checked under SpecConv *)

\* C16: the token the converter extracts from the sensitivity unit is all
\* that follows the first '/' of the string, without enclosing parentheses:
\* "g" for "mV/g" and "m/s^2" for "mV/(m/s^2)".
C16_TokenAfterSeparator ==
    Converted =>
        LET su == ConvSettings["Sensitivity Unit"]
            slashes == {i \in DOMAIN su : su[i] = "/"}
            first == CHOOSE i \in slashes : \A j \in slashes : i <= j
        IN
        /\ slashes # {} =>
              sens_unit_output(su) = Strip(SubSeq(su, first + 1, Len(su)))
        /\ su = <<"m", "V", "/", "g">> => sens_unit_output(su) = U_g
        /\ su = <<"m", "V", "/", "(", "m", "/", "s", "^", "2", ")">>
              => sens_unit_output(su) = U_ms2

-----------------------------------------------------------------------------
(* Batches and the current map, checked under SpecAcq *)

\* C18: when read_processed or acquire_processed has obtained a batch and
\* the stored map and signal list belong to one configuration, the reader
\* that delivered the batch was created from that signal list: the call
\* completes, and column i is the series of the i-th active signal divided
\* by the sensitivity of the i-th entry of the map.  (The labeled output of
\* a map with an entry that has no name is left out of the statement.)
C18_BatchFromCurrentMap ==
    (/\ ret.op \in {"read_processed", "acquire_processed"}
     /\ Matched
     /\ \E j \in DOMAIN ioLog :
           ioLog[j].op = "read" /\ ioLog[j].count > 0 /\ ioLog[j].outcome = "ok"
     /\ (ret.op = "acquire_processed" /\ ret.return_dict) => AllNamed)
        =>
        LET m == channel_settings.val IN
        /\ ret.exc = "none"
        /\ IF ret.op = "read_processed"
           THEN /\ multi_reader.signals = selected_signals.val
                /\ ret.val = ProcessedArray(
                      [i \in DOMAIN m |->
                          [raw |-> [t \in 1..ret.sample_count |->
                                       <<selected_signals.val[i], t>>],
                           sens |-> m[i][2]["Sensitivity"],
                           scale |-> "none"]],
                      ret.sample_count)
           ELSE \A i \in DOMAIN m :
                   /\ ret.rows[i].sens = m[i][2]["Sensitivity"]
                   /\ ret.rows[i].raw = [t \in 1..ret.sample_count |->
                                            <<selected_signals.val[i], t>>]

-----------------------------------------------------------------------------
(* Connection and sample rate, checked under SpecConn *)

\* rates a caller may ask for
RateRequests == 1..5

\* a session from construction on: connection attempts that the transport
\* accepts or rejects, sample-rate calls and configuration
NextConn ==
    \/ \E ok \in BOOLEAN : connect(ok)
    \/ get_sample_rate
    \/ \E r \in RateRequests : set_sample_rate(r)
    \/ \E m \in AcqMaps : configure_channels(m)

SpecConn == Init /\ [][NextConn]_vars

\* C11: a connection attempt that the transport rejects raises nothing,
\* returns False and leaves the connected flag False, whatever the session
\* was before, a session connected by an earlier connect included.
C11_RejectedConnect ==
    (ret.op = "connect" /\ ~ret.accepted) =>
        /\ ret.exc = "none"
        /\ ret.val = FALSE
        /\ connected = FALSE

\* a rejected attempt on a session that an earlier connect had connected
C11_Witness ==
    /\ ret.op = "connect"
    /\ ~ret.accepted
    /\ device = "dev"
    /\ connected = FALSE

\* a sample-rate call that completed
RateCall == ret.op \in {"get_sample_rate", "set_sample_rate"} /\ ret.exc = "none"

\* C12: a completed set_sample_rate returns the quantised rate the device
\* holds, a completed get_sample_rate returns what the device holds, after
\* either the cached rate is the device's, and only set_sample_rate changes
\* the device's rate, so that re-reading returns the same value.
C12_SampleRateRoundTrip ==
    /\ [](RateCall => /\ ret.val = dev.SampleRate
                      /\ sample_rate = dev.SampleRate
                      /\ ret.val \in SupportedRates)
    /\ []((RateCall /\ ret.op = "set_sample_rate") =>
              ret.val = Quantise(ret.req))
    /\ [][ret'.op # "set_sample_rate" => dev'.SampleRate = dev.SampleRate]_vars
    /\ [][(RateCall /\ ret'.op = "get_sample_rate") =>
              (ret'.exc = "none" /\ ret'.val = ret.val)]_vars

\* a request the device does not support exactly was set and quantised
C12_Witness ==
    /\ ret.op = "set_sample_rate"
    /\ ret.exc = "none"
    /\ ret.req \notin SupportedRates
    /\ ret.val # ret.req
    /\ sample_rate = ret.val

\* C19: the connected flag is true exactly when the session holds a device
\* handle, and a sample-rate call or a configuration that acts on the
\* device happens only with the flag true.
C19_FlagIffHandle ==
    /\ connected <=> device # "None"
    /\ (ret.op \in {"get_sample_rate", "set_sample_rate"} /\ ret.exc = "none")
          => ret.flag

====
